---- MODULE Spec2Model ----
(***************************************************************************)
(* Model of the react_perf/no_jsx_as_prop lint rule of oxc_linter.         *)
(*                                                                         *)
(* Two specifications share this module:                                   *)
(*   Spec      the rule run on one AST node: run -> check_jsx_element,     *)
(*             one step per iteration of the loop over the attributes;     *)
(*   ExprSpec  check_expression applied to one expression tree, which may  *)
(*             then be re-parenthesized and classified again.              *)
(* FairSpec is Spec with weak fairness: the rule runs synchronously to     *)
(* completion, nothing in it blocks.                                       *)
(*                                                                         *)
(* A Span is abstracted to the ordinal, in source order, of the markup     *)
(* literal it locates: distinct literals of one file have distinct spans.  *)
(***************************************************************************)
EXTENDS Integers, Sequences, FiniteSets, TLC

VARIABLES node, pc, i, diagnostics, expr, result, prev, epc

vars == <<node, pc, i, diagnostics, expr, result, prev, epc>>
scanVars == <<node, pc, i, diagnostics>>
exprVars == <<expr, result, prev, epc>>

\* ---------------------------------------------------------------- bounds
MaxNodes == 7      \* nodes of an expression tree in ExprSpec
ScanNodes == 4     \* nodes of all the attributes' expression trees of an element in Spec
MaxAttrs == 3      \* attributes of an element in Spec

\* ---------------------------------------------------------------- Option
None == [some |-> FALSE]
Some(v) == [some |-> TRUE, val |-> v]

\* ------------------------------------------------------------ Expression
JSXElementExpr == [kind |-> "JSXElement", span |-> 0]
OtherExpr == [kind |-> "Other"]
ParenthesizedExpression(e) == [kind |-> "ParenthesizedExpression", expression |-> e]
LogicalExpression(l, r) == [kind |-> "LogicalExpression", left |-> l, right |-> r]
ConditionalExpression(t, c, a) ==
  [kind |-> "ConditionalExpression", test |-> t, consequent |-> c, alternate |-> a]

\* every expression shape with exactly n nodes (spans not yet assigned)
ShapesOfSize[n \in Nat] ==
  IF n = 0 THEN {}
  ELSE IF n = 1 THEN {JSXElementExpr, OtherExpr}
  ELSE {ParenthesizedExpression(e) : e \in ShapesOfSize[n - 1]}
       \cup UNION {{LogicalExpression(l, r) :
                      l \in ShapesOfSize[a], r \in ShapesOfSize[n - 1 - a]} :
                   a \in 1..(n - 2)}
       \cup UNION {UNION {{ConditionalExpression(t, c, x) :
                             t \in ShapesOfSize[a], c \in ShapesOfSize[b],
                             x \in ShapesOfSize[n - 1 - a - b]} :
                          b \in 1..(n - 2 - a)} :
                   a \in 1..(n - 3)}

\* the same, tabulated once for the sizes the two specifications use
ShapesTable ==
  [n \in 0..(IF MaxNodes > ScanNodes THEN MaxNodes ELSE ScanNodes) |-> ShapesOfSize[n]]

Shapes(n) == UNION {ShapesTable[k] : k \in 1..n}

RECURSIVE Size(_)
Size(e) ==
  CASE e.kind = "ParenthesizedExpression" -> 1 + Size(e.expression)
    [] e.kind = "LogicalExpression" -> 1 + Size(e.left) + Size(e.right)
    [] e.kind = "ConditionalExpression" ->
         1 + Size(e.test) + Size(e.consequent) + Size(e.alternate)
    [] OTHER -> 1

\* the spans of the markup literals that occur anywhere in e
RECURSIVE JsxSpans(_)
JsxSpans(e) ==
  CASE e.kind = "JSXElement" -> {e.span}
    [] e.kind = "ParenthesizedExpression" -> JsxSpans(e.expression)
    [] e.kind = "LogicalExpression" -> JsxSpans(e.left) \cup JsxSpans(e.right)
    [] e.kind = "ConditionalExpression" ->
         JsxSpans(e.test) \cup JsxSpans(e.consequent) \cup JsxSpans(e.alternate)
    [] OTHER -> {}

\* the parser's span assignment: literals are numbered n+1, n+2, ... in
\* source order (shapes carry span 0 on every literal, so count by walking)
RECURSIVE Literals(_)
Literals(e) ==
  CASE e.kind = "JSXElement" -> 1
    [] e.kind = "ParenthesizedExpression" -> Literals(e.expression)
    [] e.kind = "LogicalExpression" -> Literals(e.left) + Literals(e.right)
    [] e.kind = "ConditionalExpression" ->
         Literals(e.test) + Literals(e.consequent) + Literals(e.alternate)
    [] OTHER -> 0

RECURSIVE AssignSpans(_, _)
AssignSpans(e, n) ==
  CASE e.kind = "JSXElement" -> [e EXCEPT !.span = n + 1]
    [] e.kind = "ParenthesizedExpression" ->
         [e EXCEPT !.expression = AssignSpans(e.expression, n)]
    [] e.kind = "LogicalExpression" ->
         [e EXCEPT !.left = AssignSpans(e.left, n),
                   !.right = AssignSpans(e.right, n + Literals(e.left))]
    [] e.kind = "ConditionalExpression" ->
         [e EXCEPT !.test = AssignSpans(e.test, n),
                   !.consequent = AssignSpans(e.consequent, n + Literals(e.test)),
                   !.alternate = AssignSpans(e.alternate,
                                   n + Literals(e.test) + Literals(e.consequent))]
    [] OTHER -> e

\* every way of wrapping exactly one subexpression of e (the root included)
\* in one more pair of parentheses
RECURSIVE Wraps(_)
Wraps(e) ==
  {ParenthesizedExpression(e)} \cup
  CASE e.kind = "ParenthesizedExpression" ->
         {[e EXCEPT !.expression = x] : x \in Wraps(e.expression)}
    [] e.kind = "LogicalExpression" ->
         {[e EXCEPT !.left = x] : x \in Wraps(e.left)}
         \cup {[e EXCEPT !.right = x] : x \in Wraps(e.right)}
    [] e.kind = "ConditionalExpression" ->
         {[e EXCEPT !.test = x] : x \in Wraps(e.test)}
         \cup {[e EXCEPT !.consequent = x] : x \in Wraps(e.consequent)}
         \cup {[e EXCEPT !.alternate = x] : x \in Wraps(e.alternate)}
    [] OTHER -> {}

\* Expression::without_parenthesized
RECURSIVE without_parenthesized(_)
without_parenthesized(e) ==
  IF e.kind = "ParenthesizedExpression"
  THEN without_parenthesized(e.expression)
  ELSE e

\* Option::or_else
or_else(a, b) == IF a.some THEN a ELSE b

\* ------------------------------------------------------ check_expression
RECURSIVE check_expression_RightFirst(_)
check_expression_RightFirst(e) ==
  LET u == without_parenthesized(e) IN
  CASE u.kind = "JSXElement" -> Some(u.span)
    [] u.kind = "LogicalExpression" ->
         or_else(check_expression_RightFirst(u.right), check_expression_RightFirst(u.left))
    [] u.kind = "ConditionalExpression" ->
         or_else(check_expression_RightFirst(u.consequent),
                 check_expression_RightFirst(u.alternate))
    [] OTHER -> None

RECURSIVE check_expression_AlternateFirst(_)
check_expression_AlternateFirst(e) ==
  LET u == without_parenthesized(e) IN
  CASE u.kind = "JSXElement" -> Some(u.span)
    [] u.kind = "LogicalExpression" ->
         or_else(check_expression_AlternateFirst(u.left),
                 check_expression_AlternateFirst(u.right))
    [] u.kind = "ConditionalExpression" ->
         or_else(check_expression_AlternateFirst(u.alternate),
                 check_expression_AlternateFirst(u.consequent))
    [] OTHER -> None

RECURSIVE check_expression_TestFirst(_)
check_expression_TestFirst(e) ==
  LET u == without_parenthesized(e) IN
  CASE u.kind = "JSXElement" -> Some(u.span)
    [] u.kind = "LogicalExpression" ->
         or_else(check_expression_TestFirst(u.left), check_expression_TestFirst(u.right))
    [] u.kind = "ConditionalExpression" ->
         or_else(check_expression_TestFirst(u.test),
                 or_else(check_expression_TestFirst(u.consequent),
                         check_expression_TestFirst(u.alternate)))
    [] OTHER -> None

RECURSIVE check_expression_NoUnwrap(_)
check_expression_NoUnwrap(e) ==
  CASE e.kind = "JSXElement" -> Some(e.span)
    [] e.kind = "LogicalExpression" ->
         or_else(check_expression_NoUnwrap(e.left), check_expression_NoUnwrap(e.right))
    [] e.kind = "ConditionalExpression" ->
         or_else(check_expression_NoUnwrap(e.consequent),
                 check_expression_NoUnwrap(e.alternate))
    [] OTHER -> None

RECURSIVE check_expression_OtherMatches(_)
check_expression_OtherMatches(e) ==
  LET u == without_parenthesized(e) IN
  CASE u.kind = "JSXElement" -> Some(u.span)
    [] u.kind = "LogicalExpression" ->
         or_else(check_expression_OtherMatches(u.left),
                 check_expression_OtherMatches(u.right))
    [] u.kind = "ConditionalExpression" ->
         or_else(check_expression_OtherMatches(u.consequent),
                 check_expression_OtherMatches(u.alternate))
    [] OTHER -> Some(0)

RECURSIVE check_expression(_)
check_expression(e) ==
  LET u == without_parenthesized(e) IN
  CASE u.kind = "JSXElement" -> Some(u.span)
    [] u.kind = "LogicalExpression" ->
         or_else(check_expression(u.left), check_expression(u.right))
    [] u.kind = "ConditionalExpression" ->
         or_else(check_expression(u.consequent), check_expression(u.alternate))
    [] OTHER -> None

\* the expressions check_expression(e) may call itself on
Operands(e) ==
  LET u == without_parenthesized(e) IN
  CASE u.kind = "LogicalExpression" -> {u.left, u.right}
    [] u.kind = "ConditionalExpression" -> {u.consequent, u.alternate}
    [] OTHER -> {}

\* -------------------------------------------------------- JSXAttributeItem
SpreadAttribute == [type |-> "SpreadAttribute"]
Attribute(v) == [type |-> "Attribute", value |-> v]
StringLiteral == [kind |-> "StringLiteral"]
EmptyExpression == [kind |-> "EmptyExpression"]
ExpressionContainer(x) == [kind |-> "ExpressionContainer", expression |-> x]
Expression(e) == [kind |-> "Expression", expr |-> e]

\* utils::get_prop_value
get_prop_value(item) ==
  IF item.type = "Attribute" THEN item.value ELSE None

\* the attribute holds `name={expr}` with a real expression
HasExpr(item) ==
  /\ item.type = "Attribute"
  /\ item.value.some
  /\ item.value.val.kind = "ExpressionContainer"
  /\ item.value.val.expression.kind = "Expression"

ExprOf(item) == item.value.val.expression.expr

ItemLiterals(item) == IF HasExpr(item) THEN Literals(ExprOf(item)) ELSE 0

\* the attribute items whose expression has exactly c nodes (c = 0: the
\* items without an expression)
ItemsOfCost(c) ==
  IF c = 0
  THEN {SpreadAttribute, Attribute(None), Attribute(Some(StringLiteral)),
        Attribute(Some(ExpressionContainer(EmptyExpression)))}
  ELSE {Attribute(Some(ExpressionContainer(Expression(e)))) : e \in ShapesTable[c]}

\* the attribute lists of length n whose expressions have at most b nodes
\* in all
RECURSIVE ItemSeqs(_, _)
ItemSeqs(n, b) ==
  IF n = 0 THEN {<<>>}
  ELSE UNION {LET rests == ItemSeqs(n - 1, b - c)
              IN  UNION {{<<item>> \o rest : rest \in rests} : item \in ItemsOfCost(c)} :
              c \in 0..b}

RECURSIVE LiteralsBefore(_, _)
LiteralsBefore(items, k) ==
  IF k <= 1 THEN 0
  ELSE LiteralsBefore(items, k - 1) + ItemLiterals(items[k - 1])

\* span assignment over the whole attribute list, in source order
AssignItemSpans(items) ==
  [k \in DOMAIN items |->
     IF HasExpr(items[k])
     THEN Attribute(Some(ExpressionContainer(Expression(
            AssignSpans(ExprOf(items[k]), LiteralsBefore(items, k))))))
     ELSE items[k]]

JSXElementNode(items) ==
  [kind |-> "JSXElement", opening_element |-> [attributes |-> items]]
OtherNode == [kind |-> "Other"]

\* the nodes the engine may hand to run: a node of another kind, or an
\* element with up to MaxAttrs attributes, spans assigned
IsNode(n) ==
  \/ n = OtherNode
  \/ n = JSXElementNode(<<>>)
  \/ \E len \in 1..MaxAttrs : \E c \in 0..ScanNodes : \E item \in ItemsOfCost(c) :
       \E rest \in ItemSeqs(len - 1, ScanNodes - c) :
         n = JSXElementNode(AssignItemSpans(<<item>> \o rest))

Attrs == IF node.kind = "JSXElement" THEN node.opening_element.attributes ELSE <<>>
DiagSet == {diagnostics[d] : d \in DOMAIN diagnostics}

\* ------------------------------------------------------------------ Spec
Init ==
  /\ IsNode(node)
  /\ pc = "idle"
  /\ i = 1
  /\ diagnostics = <<>>
  /\ expr = OtherExpr
  /\ result = None
  /\ prev = None
  /\ epc = "done"

\* Rule::run
run ==
  /\ pc = "idle"
  /\ pc' = IF node.kind = "JSXElement" THEN "scan" ELSE "done"
  /\ UNCHANGED <<node, i, diagnostics>>
  /\ UNCHANGED exprVars

check_jsx_element_None_Continue ==
  /\ pc = "scan"
  /\ i <= Len(Attrs)
  /\ get_prop_value(Attrs[i]) = None
  /\ i' = i + 1
  /\ UNCHANGED <<node, pc, diagnostics>>
  /\ UNCHANGED exprVars

\* None => return
check_jsx_element_None ==
  /\ pc = "scan"
  /\ i <= Len(Attrs)
  /\ get_prop_value(Attrs[i]) = None
  /\ pc' = "done"
  /\ UNCHANGED <<node, i, diagnostics>>
  /\ UNCHANGED exprVars

\* Some(ExpressionContainer { expression: Expression(expr) }) => ...
check_jsx_element_ExpressionContainer ==
  /\ pc = "scan"
  /\ i <= Len(Attrs)
  /\ HasExpr(Attrs[i])
  /\ LET span == check_expression(ExprOf(Attrs[i])) IN
       diagnostics' = IF span.some THEN Append(diagnostics, span.val) ELSE diagnostics
  /\ i' = i + 1
  /\ UNCHANGED <<node, pc>>
  /\ UNCHANGED exprVars

check_jsx_element_Skip_Stuck ==
  /\ pc = "scan"
  /\ i <= Len(Attrs)
  /\ get_prop_value(Attrs[i]) # None
  /\ ~HasExpr(Attrs[i])
  /\ UNCHANGED scanVars
  /\ UNCHANGED exprVars

\* _ => {}
check_jsx_element_Skip ==
  /\ pc = "scan"
  /\ i <= Len(Attrs)
  /\ get_prop_value(Attrs[i]) # None
  /\ ~HasExpr(Attrs[i])
  /\ i' = i + 1
  /\ UNCHANGED <<node, pc, diagnostics>>
  /\ UNCHANGED exprVars

\* the attribute list is exhausted
check_jsx_element_End ==
  /\ pc = "scan"
  /\ i > Len(Attrs)
  /\ pc' = "done"
  /\ UNCHANGED <<node, i, diagnostics>>
  /\ UNCHANGED exprVars

Next ==
  \/ run
  \/ check_jsx_element_None
  \/ check_jsx_element_ExpressionContainer
  \/ check_jsx_element_Skip
  \/ check_jsx_element_End

Spec == Init /\ [][Next]_vars

FairSpec == Spec /\ WF_vars(Next)

\* -------------------------------------------------------------- ExprSpec
InitExpr ==
  /\ expr \in {AssignSpans(s, 0) : s \in Shapes(MaxNodes)}
  /\ result = None
  /\ prev = None
  /\ epc = "ready"
  /\ node = OtherNode
  /\ pc = "done"
  /\ i = 1
  /\ diagnostics = <<>>

\* one call of check_expression on the current expression
Classify ==
  /\ epc = "ready"
  /\ result' = check_expression(expr)
  /\ epc' = "done"
  /\ UNCHANGED <<expr, prev>>
  /\ UNCHANGED scanVars

\* the same source with one more pair of parentheses somewhere; prev keeps
\* the classification of the expression before the parentheses were added
Parenthesize ==
  /\ epc = "done"
  /\ Size(expr) < MaxNodes
  /\ \E w \in Wraps(expr) : expr' = w
  /\ prev' = Some(result)
  /\ epc' = "ready"
  /\ UNCHANGED result
  /\ UNCHANGED scanVars

NextExpr ==
  \/ Classify
  \/ Parenthesize

ExprSpec == InitExpr /\ [][NextExpr]_vars

\* ------------------------------------------------------------ properties
Scanned == pc = "done" /\ node.kind = "JSXElement"

\* the diagnostics whose span lies inside the expression of attribute k
Own(k) == {d \in DOMAIN diagnostics : diagnostics[d] \in JsxSpans(ExprOf(Attrs[k]))}

IsDirectLiteral(item) ==
  HasExpr(item) /\ without_parenthesized(ExprOf(item)).kind = "JSXElement"

\* C1: once an element is scanned, every attribute whose expression is,
\* under its parentheses, directly a markup literal has a diagnostic at that
\* literal's span.
C1_DirectLiteralReported ==
  Scanned =>
    \A k \in DOMAIN Attrs :
      IsDirectLiteral(Attrs[k]) =>
        without_parenthesized(ExprOf(Attrs[k])).span \in DiagSet

\* C2: the classification of a logical expression is the left operand's
\* match when the left operand matches, and the right operand's
\* classification otherwise.
C2_LogicalLeftFirst ==
  (epc = "done" /\ expr.kind = "LogicalExpression") =>
    LET l == check_expression(expr.left)
        r == check_expression(expr.right)
    IN  /\ l.some => result = l /\ result.val \in JsxSpans(expr.left)
        /\ ~l.some => result = r

C2_Witness ==
  /\ epc = "done"
  /\ expr.kind = "LogicalExpression"
  /\ JsxSpans(expr.left) # {}
  /\ JsxSpans(expr.right) # {}
  /\ check_expression(expr.left).some
  /\ result.some
  /\ result.val \in JsxSpans(expr.left)

\* C3: the classification of a conditional expression is the consequent's
\* match when the consequent matches, and the alternate's classification
\* otherwise.
C3_ConsequentFirst ==
  (epc = "done" /\ expr.kind = "ConditionalExpression") =>
    LET c == check_expression(expr.consequent)
        a == check_expression(expr.alternate)
    IN  /\ c.some => result = c /\ result.val \in JsxSpans(expr.consequent)
        /\ ~c.some => result = a

C3_Witness ==
  /\ epc = "done"
  /\ expr.kind = "ConditionalExpression"
  /\ check_expression(expr.consequent).some
  /\ check_expression(expr.alternate).some
  /\ result.some
  /\ result.val \in JsxSpans(expr.consequent)

C5_OnePerMatchingAttribute ==
  Scanned =>
    /\ \A k \in DOMAIN Attrs :
         HasExpr(Attrs[k]) =>
           LET r == check_expression(ExprOf(Attrs[k])) IN
             IF r.some
             THEN Cardinality(Own(k)) = 1 /\ \A d \in Own(k) : diagnostics[d] = r.val
             ELSE Own(k) = {}
    /\ \A d \in DOMAIN diagnostics : \E k \in DOMAIN Attrs : HasExpr(Attrs[k]) /\ d \in Own(k)
    /\ \A d1, d2 \in DOMAIN diagnostics : d1 < d2 => diagnostics[d1] < diagnostics[d2]

\* C6: adding one more pair of parentheses around any subexpression leaves
\* the classification as it was before: the same match or no-match, the
\* same span.
C6_ParenthesesInvisible ==
  (epc = "done" /\ prev.some) => result = prev.val

C6_Witness ==
  /\ epc = "done"
  /\ prev.some
  /\ result.some
  /\ expr.kind = "LogicalExpression"
  /\ expr.right.kind = "ParenthesizedExpression"
  /\ expr.right.expression.kind = "ParenthesizedExpression"
  /\ result.val \in JsxSpans(expr.right)

\* C7: a step of the scan on an attribute whose value is not an
\* expression-container (a literal value, or no value at all) emits nothing
\* and, when attributes follow, leaves the scan going at the next attribute.
C7_NonContainerSkipped ==
  [][(/\ pc = "scan"
      /\ i <= Len(Attrs)
      /\ Attrs[i].type = "Attribute"
      /\ (Attrs[i].value.some => Attrs[i].value.val.kind # "ExpressionContainer"))
     => (/\ diagnostics' = diagnostics
         /\ i < Len(Attrs) => (pc' = "scan" /\ i' = i + 1))]_vars

\* C8: a step of the scan on an attribute whose expression is, under its
\* parentheses, neither a markup literal, a logical nor a conditional
\* expression emits no diagnostic.
C8_OtherShapesNeverMatch ==
  [][(/\ pc = "scan"
      /\ i <= Len(Attrs)
      /\ HasExpr(Attrs[i])
      /\ without_parenthesized(ExprOf(Attrs[i])).kind \notin
           {"JSXElement", "LogicalExpression", "ConditionalExpression"})
     => (diagnostics' = diagnostics /\ i' = i + 1 /\ pc' = "scan")]_vars

C8_Witness ==
  /\ pc = "scan"
  /\ i = 3
  /\ HasExpr(Attrs[1])
  /\ HasExpr(Attrs[2])
  /\ check_expression(ExprOf(Attrs[1])).some
  /\ ExprOf(Attrs[2]).kind = "ParenthesizedExpression"
  /\ without_parenthesized(ExprOf(Attrs[2])).kind = "Other"
  /\ Len(diagnostics) = 1

\* the outcome the scan has for attribute k
Outcome(k) ==
  IF get_prop_value(Attrs[k]) = None THEN "scan-stops"
  ELSE IF HasExpr(Attrs[k]) /\ check_expression(ExprOf(Attrs[k])).some THEN "match"
  ELSE "no-match"

RECURSIVE SubExprs(_)
SubExprs(e) ==
  {e} \cup
  CASE e.kind = "ParenthesizedExpression" -> SubExprs(e.expression)
    [] e.kind = "LogicalExpression" -> SubExprs(e.left) \cup SubExprs(e.right)
    [] e.kind = "ConditionalExpression" ->
         SubExprs(e.test) \cup SubExprs(e.consequent) \cup SubExprs(e.alternate)
    [] OTHER -> {}

C9_Defined ==
  /\ pc \in {"idle", "scan", "done"}
  /\ i \in 1..(Len(Attrs) + 1)
  /\ \A k \in DOMAIN Attrs :
       /\ Outcome(k) \in {"match", "no-match", "scan-stops"}
       /\ HasExpr(Attrs[k]) =>
            \A e \in SubExprs(ExprOf(Attrs[k])) :
              /\ check_expression(e) \in {None} \cup {Some(s) : s \in JsxSpans(e)}
              /\ \A o \in Operands(e) : Size(o) < Size(e)
  /\ DiagSet \subseteq UNION {JsxSpans(ExprOf(Attrs[k])) : k \in {h \in DOMAIN Attrs : HasExpr(Attrs[h])}}

\* C9: every run of the rule on a node ends, and at every point of it each
\* attribute has one of the outcomes match, no-match or scan-stops, each
\* classification is a span of the expression or no-match, and each
\* recursive call of the classification is on a strictly smaller expression.
C9_Total == []C9_Defined /\ <>[](pc = "done")

C9_Witness ==
  /\ Scanned
  /\ Len(Attrs) = 3
  /\ i = 4
  /\ Outcome(1) = "match"
  /\ Outcome(2) = "no-match"
  /\ HasExpr(Attrs[3])
  /\ ExprOf(Attrs[3]).kind = "LogicalExpression"

\* C10: the classification of a conditional expression never comes from its
\* test operand and is the same whatever the test operand is.
C10_TestIgnored ==
  (epc = "done" /\ expr.kind = "ConditionalExpression") =>
    /\ result.some =>
         result.val \in JsxSpans(expr.consequent) \cup JsxSpans(expr.alternate)
    /\ \A t \in {OtherExpr, JSXElementExpr, ParenthesizedExpression(JSXElementExpr)} :
         check_expression([expr EXCEPT !.test = t]) = result

C10_Witness ==
  /\ epc = "done"
  /\ expr.kind = "ConditionalExpression"
  /\ JsxSpans(expr.test) # {}
  /\ JsxSpans(expr.consequent) = {}
  /\ JsxSpans(expr.alternate) = {}
  /\ result = None

====
